---- MODULE Spec2Model ----
(***************************************************************************)
(* Berlin winery analysis: the district assigners, the density statistics  *)
(* and the historical series synthesizers of src/scripts, as state         *)
(* machines over small input tables.                                       *)
(*                                                                         *)
(* Units.  Coordinates are integers in millidegrees (52.500 -> 52500).     *)
(* Areas are tenths of a km2 (39.5 -> 395).  density_per_km2 is in         *)
(* thousandths (round(x, 3)), wineries_per_100k_people in hundredths       *)
(* (round(x, 2)).                                                          *)
(***************************************************************************)
EXTENDS Integers, Sequences, FiniteSets, TLC

VARIABLES
    districts,          \* density script: the catalog passed to assign_districts_to_wineries
    df,                 \* density script: the winery table (rows in file order)
    district_stats_df,  \* density script: the statistics table, <<>> before the first run
    runs,               \* density script: completed runs of assign_districts_to_wineries
    current_df,         \* growth script: the winery table
    wineries,           \* download_recent_wineries: the list of winery dicts
    done,               \* the assignment routines that have run at least once
    stream,             \* numpy's global generator: the deviates it yields, by state
    rng,                \* numpy's global generator: its state (a position of stream)
    sim_runs,           \* growth script: the last two calls of
                        \* simulate_historical_winery_development (argument, result)
    winery_runs,        \* temporal script: the results of the last two calls of
                        \* get_annual_winery_growth_data
    historical_df,      \* growth script: the argument of calculate_growth_metrics
    growth_metrics_df,  \* growth script: the outcome of calculate_growth_metrics
    winery_rates,       \* temporal script: the argument x of calculate_cross_correlation
    re_rates,           \* temporal script: the argument y of calculate_cross_correlation
    max_lag,            \* temporal script: the argument max_lag
    cross_corr,         \* temporal script: the outcome of calculate_cross_correlation
    report,             \* temporal script: the best lag generate_leading_indicator_report
                        \* finds in cross_corr
    args,               \* main.py: the parsed command line
    pc,                 \* main.py: the statement main is at
    success,            \* main.py: the *_success locals that are assigned so far
    started,            \* main.py: the scripts subprocess.run was called on, in order
    cwd,                \* main.py: the process working directory
    exit_code,          \* main.py: what main returned, once it is left
    data_files          \* main.py: which of the two data files exist

assignVars == <<districts, df, district_stats_df, runs, wineries, done>>
synthVars == <<stream, rng, sim_runs, winery_runs>>
analysisVars == <<historical_df, growth_metrics_df, winery_rates, re_rates,
                  max_lag, cross_corr, report>>
mainVars == <<args, pc, success, started, cwd, exit_code, data_files>>
vars == <<districts, df, district_stats_df, runs, current_df, wineries, done,
          stream, rng, sim_runs, winery_runs,
          historical_df, growth_metrics_df, winery_rates, re_rates, max_lag, cross_corr,
          report, args, pc, success, started, cwd, exit_code, data_files>>

----------------------------------------------------------------------------
(* Bounds of the model *)

MaxEntities == 2
MaxRuns == 2
\* the generator's states form a cycle of this length
Period == 3

----------------------------------------------------------------------------
(* Before calculate_growth_metrics and calculate_cross_correlation are      *)
(* called they have no argument and no outcome.                             *)

NotCalled == [kind |-> "not called"]

\* main.py is not run
NoPipeline ==
    /\ args = [download_only |-> FALSE, viz_only |-> FALSE, skip_download |-> FALSE]
    /\ pc = "not run" /\ success = {} /\ started = << >>
    /\ cwd = "project" /\ exit_code = "none"
    /\ data_files = [csv |-> FALSE, json |-> FALSE]

InitAnalysis ==
    /\ historical_df = << >> /\ growth_metrics_df = NotCalled
    /\ winery_rates = << >> /\ re_rates = << >> /\ max_lag = 0
    /\ cross_corr = NotCalled /\ report = NotCalled
    /\ NoPipeline

----------------------------------------------------------------------------
(* Coordinate values as Python sees them *)

Num(x) == [kind |-> "num", v |-> x]
NaN == [kind |-> "nan", v |-> 0]
None == [kind |-> "none", v |-> 0]

\* bool(x): None and 0 are falsy, NaN and every other number are truthy
Truthy(c) == IF c.kind = "num" THEN c.v # 0 ELSE c.kind = "nan"

\* lo <= c <= hi; every comparison with NaN is False
Between(lo, c, hi) == c.kind = "num" /\ lo <= c.v /\ c.v <= hi

\* a finite number (what the spec calls a valid coordinate)
Valid(c) == c.kind = "num"

Other == "Other"

----------------------------------------------------------------------------
(* The catalogs *)

Box(name, lat_min, lat_max, lon_min, lon_max) ==
    [name |-> name, lat_min |-> lat_min, lat_max |-> lat_max,
     lon_min |-> lon_min, lon_max |-> lon_max]

Region(name, lat_min, lat_max, lon_min, lon_max, area, pop) ==
    Box(name, lat_min, lat_max, lon_min, lon_max)
        @@ [area_km2 |-> area, population |-> pop]

\* the growth script's catalog entries carry no population
AreaBox(name, lat_min, lat_max, lon_min, lon_max, area) ==
    Box(name, lat_min, lat_max, lon_min, lon_max) @@ [area_km2 |-> area]

\* create_winery_density_map.get_district_boundaries_and_areas, in dict order.
\* The two keys with an umlaut are spelled with other characters in this file
\* than in the other scripts (the umlaut's bytes decoded in another charset);
\* they are kept distinct here as Neuk_v_oe_lln and Sch_v_oe_neberg.
DensityCatalog == <<
    Region("Mitte",           52500, 52550, 13350, 13420, 395, 383000),
    Region("Prenzlauer Berg", 52520, 52560, 13400, 13450, 109, 165000),
    Region("Charlottenburg",  52490, 52530, 13280, 13350, 647, 129000),
    Region("Kreuzberg",       52490, 52520, 13380, 13420, 152, 154000),
    Region("Neuk_v_oe_lln",   52450, 52500, 13400, 13470, 449, 329000),
    Region("Friedrichshain",  52500, 52530, 13420, 13480,  98, 289000),
    Region("Sch_v_oe_neberg", 52460, 52500, 13330, 13380, 105, 349000),
    Region("Wedding",         52530, 52570, 13330, 13380,  95,  87000),
    Region("Tempelhof",       52450, 52490, 13380, 13420, 122,  56000),
    Region("Steglitz",        52440, 52480, 13310, 13360,  92, 105000),
    Region("Wilmersdorf",     52470, 52510, 13280, 13330,  89,  94000),
    Region("Spandau",         52520, 52580, 13160, 13280, 919, 245000) >>

\* create_winery_growth_analysis.get_district_boundaries_and_areas, in dict order
GrowthCatalog == <<
    AreaBox("Prenzlauer Berg", 52520, 52560, 13400, 13450, 109),
    AreaBox("Neukoelln",       52450, 52500, 13400, 13470, 449),
    AreaBox("Friedrichshain",  52500, 52530, 13420, 13480,  98),
    AreaBox("Kreuzberg",       52490, 52520, 13380, 13420, 152),
    AreaBox("Wedding",         52530, 52570, 13330, 13380,  95),
    AreaBox("Mitte",           52500, 52550, 13350, 13420, 395),
    AreaBox("Charlottenburg",  52490, 52530, 13280, 13350, 647),
    AreaBox("Schoeneberg",     52460, 52500, 13330, 13380, 105),
    AreaBox("Tempelhof",       52450, 52490, 13380, 13420, 122),
    AreaBox("Steglitz",        52440, 52480, 13310, 13360,  92),
    AreaBox("Wilmersdorf",     52470, 52510, 13280, 13330,  89),
    AreaBox("Spandau",         52520, 52580, 13160, 13280, 919) >>

\* download_recent_wineries.add_district_info, in dict order
RecentCatalog == <<
    Box("Mitte",           52500, 52550, 13350, 13420),
    Box("Prenzlauer Berg", 52520, 52560, 13400, 13450),
    Box("Charlottenburg",  52490, 52530, 13280, 13350),
    Box("Kreuzberg",       52490, 52520, 13380, 13420),
    Box("Neukoelln",       52450, 52500, 13400, 13470),
    Box("Friedrichshain",  52500, 52530, 13420, 13480),
    Box("Schoeneberg",     52460, 52500, 13330, 13380),
    Box("Wedding",         52530, 52570, 13330, 13380),
    Box("Tempelhof",       52450, 52490, 13380, 13420),
    Box("Steglitz",        52440, 52480, 13310, 13360) >>

\* A second argument for assign_districts_to_wineries(df, districts): two
\* overlapping boxes around the origin, a zero and a negative area, a zero and
\* a negative population, and cataloged areas that sum to more than Berlin's.
ArgCatalog == <<
    Region("A", -10, 10, -10, 10,    0,    -1),
    Region("B",   0, 20,   0, 20, 9000,     0),
    Region("C",  30, 40,  30, 40,   -5, 50000) >>

Catalogs == {DensityCatalog, ArgCatalog}

----------------------------------------------------------------------------
(* Input tables *)

Pt(lat, lon) == [latitude |-> lat, longitude |-> lon]

Points == {
    Pt(Num(52525), Num(13385)),   \* Mitte only
    Pt(Num(52530), Num(13410)),   \* Mitte and Prenzlauer Berg
    Pt(Num(52520), Num(13420)),   \* corner of Mitte, Prenzlauer Berg, Kreuzberg, Friedrichshain
    Pt(Num(52550), Num(13355)),   \* Mitte and Wedding
    Pt(Num(52600), Num(13500)),   \* no district
    Pt(NaN, Num(13385)),          \* missing latitude read from the CSV
    Pt(Num(52525), None),         \* longitude None
    Pt(Num(0), Num(5)),           \* latitude 0
    Pt(Num(5), Num(5)),
    Pt(Num(35), Num(35)) }

Row(i, p) == [id |-> i, latitude |-> p.latitude, longitude |-> p.longitude,
              district |-> ""]

Tables == UNION { { [i \in 1..n |-> Row(i, f[i])] : f \in [1..n -> Points] }
                  : n \in 0..MaxEntities }

----------------------------------------------------------------------------
(* Region assignment *)

InBounds(bounds, lat, lon) ==
    /\ Between(bounds.lat_min, lat, bounds.lat_max)
    /\ Between(bounds.lon_min, lon, bounds.lon_max)

\* for district_name, district_info in districts.items(): ... break
\* from entry i on; Other when the loop ends without a match
RECURSIVE FirstMatch(_, _, _, _)
FirstMatch(i, catalog, lat, lon) ==
    IF i > Len(catalog) THEN Other
    ELSE IF InBounds(catalog[i], lat, lon) THEN catalog[i].name
    ELSE FirstMatch(i + 1, catalog, lat, lon)

\* one iteration of "for idx, winery in df.iterrows()" after df['district'] = 'Other'
DistrictOf(winery, catalog) ==
    IF Truthy(winery.latitude) /\ Truthy(winery.longitude)
    THEN FirstMatch(1, catalog, winery.latitude, winery.longitude)
    ELSE Other

\* a mutant: the label found for a row is kept in a variable that is not reset,
\* so a row without a match takes the label of the row before it
RECURSIVE CarryLabels(_, _, _)
CarryLabels(table, catalog, n) ==
    IF n = 0 THEN <<>>
    ELSE LET before == CarryLabels(table, catalog, n - 1)
             own == DistrictOf(table[n], catalog)
             lab == IF own = Other /\ n > 1 THEN before[n - 1].district ELSE own
         IN  Append(before, [table[n] EXCEPT !.district = lab])

AssignRowsCarry(table, catalog) == CarryLabels(table, catalog, Len(table))

\* df['district'] = 'Other', then the loop over the rows
AssignRows(table, catalog) ==
    [i \in 1..Len(table) |-> [table[i] EXCEPT !.district = DistrictOf(table[i], catalog)]]

\* add_district_info: the district key is written only inside "if lat and lon"
RecentDistrictOf(winery) ==
    IF Truthy(winery.latitude) /\ Truthy(winery.longitude)
    THEN FirstMatch(1, RecentCatalog, winery.latitude, winery.longitude)
    ELSE winery.district

AddDistrictInfoRows(list) ==
    [i \in 1..Len(list) |-> [list[i] EXCEPT !.district = RecentDistrictOf(list[i])]]

----------------------------------------------------------------------------
(* District statistics of the density script *)

BerlinTotalArea == 8917
OtherPopulation == 800000

\* len(df[df['district'] == name])
CountIn(table, name) == Cardinality({i \in 1..Len(table) : table[i].district = name})

\* the integer nearest to n / d for d > 0, ties to the even one (Python's round)
RoundDiv(n, d) ==
    LET q == n \div d
        r == n % d
    IN  IF 2 * r < d THEN q
        ELSE IF 2 * r > d THEN q + 1
        ELSE IF q % 2 = 0 THEN q ELSE q + 1

\* a mutant: the division without its guard's zero branch in force (area 0 is
\* replaced by the smallest area, as a clamp would)
DensityClampedArea(count, area) ==
    RoundDiv(count * 10000, IF area > 0 THEN area ELSE 1)

\* round(winery_count / area_km2 if area_km2 > 0 else 0, 3)
Density(count, area) ==
    IF area > 0 THEN RoundDiv(count * 10000, area) ELSE 0

\* round((winery_count / population) * 100000, 2) if population > 0 else 0
PerCapita(count, population) ==
    IF population > 0 THEN RoundDiv(count * 10000000, population) ELSE 0

StatsRow(table, info) ==
    LET winery_count == CountIn(table, info.name)
    IN  [district |-> info.name,
         winery_count |-> winery_count,
         area_km2 |-> info.area_km2,
         density_per_km2 |-> Density(winery_count, info.area_km2),
         population |-> info.population,
         wineries_per_100k_people |-> PerCapita(winery_count, info.population)]

RECURSIVE SumAreas(_, _)
SumAreas(catalog, n) ==
    IF n = 0 THEN 0 ELSE SumAreas(catalog, n - 1) + catalog[n].area_km2

\* a mutant: the remaining area clamped to a smallest positive area
OtherAreaClamped(catalog) ==
    LET rest == BerlinTotalArea - SumAreas(catalog, Len(catalog))
    IN  IF rest > 1 THEN rest ELSE 1

\* other_area = berlin_total_area - total_defined_area
OtherArea(catalog) == BerlinTotalArea - SumAreas(catalog, Len(catalog))

\* a mutant: the "Other" row appended whether or not a winery is labeled Other
OtherStatsAlways(table, catalog) ==
    LET n == CountIn(table, Other)
    IN  << [district |-> Other,
            winery_count |-> n,
            area_km2 |-> OtherArea(catalog),
            density_per_km2 |-> IF OtherArea(catalog) > 0
                                THEN RoundDiv(n * 10000, OtherArea(catalog)) ELSE 0,
            population |-> OtherPopulation,
            wineries_per_100k_people |-> RoundDiv(n * 10000000, OtherPopulation)] >>

\* the "Other" row, appended only when some winery is labeled Other
OtherStats(table, catalog) ==
    LET n == CountIn(table, Other)
        other_area == OtherArea(catalog)
    IN  IF n > 0
        THEN << [district |-> Other,
                 winery_count |-> n,
                 area_km2 |-> other_area,
                 density_per_km2 |-> IF other_area > 0 THEN RoundDiv(n * 10000, other_area) ELSE 0,
                 population |-> OtherPopulation,
                 wineries_per_100k_people |-> RoundDiv(n * 10000000, OtherPopulation)] >>
        ELSE << >>

\* sort_values('density_per_km2', ascending=False): insertion of each row after
\* the rows that are not smaller (the order of equal rows is kept)
RECURSIVE InsertDesc(_, _)
InsertDesc(sorted, row) ==
    IF sorted = << >> THEN << row >>
    ELSE IF Head(sorted).density_per_km2 >= row.density_per_km2
         THEN << Head(sorted) >> \o InsertDesc(Tail(sorted), row)
         ELSE << row >> \o sorted

RECURSIVE SortDesc(_, _)
SortDesc(rows, n) ==
    IF n = 0 THEN << >> ELSE InsertDesc(SortDesc(rows, n - 1), rows[n])

DistrictStats(table, catalog) ==
    LET rows == [i \in 1..Len(catalog) |-> StatsRow(table, catalog[i])]
                    \o OtherStats(table, catalog)
    IN  SortDesc(rows, Len(rows))

----------------------------------------------------------------------------
(* Actions *)

\* create_winery_density_map.assign_districts_to_wineries(df, districts)
assign_districts_to_wineries ==
    /\ runs < MaxRuns
    /\ df' = AssignRows(df, districts)
    /\ district_stats_df' = DistrictStats(df', districts)
    /\ runs' = runs + 1
    /\ done' = done \cup {"density"}
    /\ UNCHANGED <<districts, current_df, wineries>>
    /\ UNCHANGED <<synthVars, analysisVars, mainVars>>

\* create_winery_growth_analysis.assign_districts_to_wineries(df)
growth_assign_districts_to_wineries ==
    /\ current_df' = AssignRows(current_df, GrowthCatalog)
    /\ done' = done \cup {"growth"}
    /\ UNCHANGED <<districts, df, district_stats_df, runs, wineries>>
    /\ UNCHANGED <<synthVars, analysisVars, mainVars>>

\* download_recent_wineries.add_district_info(wineries)
add_district_info ==
    /\ wineries' = AddDistrictInfoRows(wineries)
    /\ done' = done \cup {"recent"}
    /\ UNCHANGED <<districts, df, district_stats_df, runs, current_df>>
    /\ UNCHANGED <<synthVars, analysisVars, mainVars>>

\* the same wineries arrive in another row order (two neighbouring rows of the
\* table swapped) before the density script runs again; the first run's order
\* is already any order, by Init
Reorder ==
    /\ 1 <= runs /\ runs < MaxRuns
    /\ \E i \in 1..(Len(df) - 1) :
         df' = [df EXCEPT ![i] = df[i + 1], ![i + 1] = df[i]]
    /\ UNCHANGED <<districts, district_stats_df, runs, current_df, wineries, done>>
    /\ UNCHANGED <<synthVars, analysisVars, mainVars>>

Init ==
    /\ districts \in Catalogs
    /\ df \in Tables
    /\ current_df = df
    /\ wineries = df
    /\ district_stats_df = << >>
    /\ runs = 0
    /\ done = {}
    /\ stream = << >> /\ rng = 0 /\ sim_runs = << >> /\ winery_runs = << >>
    /\ InitAnalysis

Next ==
    \/ assign_districts_to_wineries
    \/ growth_assign_districts_to_wineries
    \/ add_district_info
    \/ Reorder

Spec == Init /\ [][Next]_vars

----------------------------------------------------------------------------
(* Properties of region assignment and of the density statistics *)

Names(catalog) == {catalog[i].name : i \in 1..Len(catalog)}

\* the catalog entries whose inclusive box holds the row's coordinates
Containing(catalog, row) ==
    {i \in 1..Len(catalog) :
        /\ Valid(row.latitude) /\ Valid(row.longitude)
        /\ catalog[i].lat_min <= row.latitude.v /\ row.latitude.v <= catalog[i].lat_max
        /\ catalog[i].lon_min <= row.longitude.v /\ row.longitude.v <= catalog[i].lon_max}

First(S) == CHOOSE i \in S : \A j \in S : i <= j

Rows(table) == {table[i] : i \in 1..Len(table)}

Labeled(table, catalog) ==
    \A row \in Rows(table) : row.district \in Names(catalog) \cup {Other}

\* C1: after an assignment routine has run, every entity of its table, also one
\* with a missing, None or 0 coordinate, carries a label that is a cataloged
\* district name or "Other", never the empty string.
C1_TotalAssignment ==
    /\ "density" \in done => Labeled(df, districts)
    /\ "growth" \in done => Labeled(current_df, GrowthCatalog)
    /\ "recent" \in done => Labeled(wineries, RecentCatalog)

FirstOfContaining(table, catalog) ==
    \A row \in Rows(table) :
        Cardinality(Containing(catalog, row)) >= 2
            => row.district = catalog[First(Containing(catalog, row))].name

\* C2: an entity whose coordinates lie in the boxes of two or more regions is
\* assigned the region declared first among them.
C2_FirstInCatalogOrder ==
    /\ "density" \in done => FirstOfContaining(df, districts)
    /\ "growth" \in done => FirstOfContaining(current_df, GrowthCatalog)

OtherIffNoBox(table, catalog) ==
    \A row \in Rows(table) :
        row.district = Other <=> Containing(catalog, row) = {}

\* C3: an entity is labeled "Other" exactly when no cataloged box holds its
\* coordinates (a coordinate equal to 0 included).
C3_OtherIffNoBox ==
    /\ "density" \in done => OtherIffNoBox(df, districts)
    /\ "growth" \in done => OtherIffNoBox(current_df, GrowthCatalog)

LabelsById(table) == {<<row.id, row.district>> : row \in Rows(table)}

\* C4: once the density analysis has run, neither presenting the same entities
\* in another order nor running it again (on the table that now has a district
\* column) changes any entity's label or any row of the statistics.
C4_OrderIndependentIdempotent ==
    [][runs >= 1 => /\ LabelsById(df') = LabelsById(df)
                    /\ district_stats_df' = district_stats_df]_vars

\* two runs, the rows in another order for the second, two different labels
C4_Witness ==
    /\ runs = 2 /\ Len(df) = 2
    /\ df[1].id = 2
    /\ df[1].district # df[2].district

StatsRows == {district_stats_df[i] : i \in 1..Len(district_stats_df)}

\* C5: an entity with a missing or non-finite coordinate is left out of every
\* count of the statistics, the count of "Other" included.
C5_InvalidExcluded ==
    \A r \in StatsRows :
        r.winery_count =
            Cardinality({i \in 1..Len(df) :
                /\ Valid(df[i].latitude) /\ Valid(df[i].longitude)
                /\ df[i].district = r.district})

Abs(x) == IF x < 0 THEN -x ELSE x

\* q is n / d to the nearest unit
Nearest(q, n, d) == 2 * Abs(q * d - n) <= d

\* C6: in every row of the statistics, density is count / area (to the three
\* decimals reported) when area > 0 and 0 when area <= 0, per-capita is
\* count / population * 100000 (to the two decimals reported) when population > 0
\* and 0 when population <= 0, and density is 0 when count is 0.
C6_GuardedNormalization ==
    \A r \in StatsRows :
        /\ r.area_km2 > 0 => Nearest(r.density_per_km2, r.winery_count * 10000, r.area_km2)
        /\ r.area_km2 <= 0 => r.density_per_km2 = 0
        /\ r.population > 0 =>
              Nearest(r.wineries_per_100k_people, r.winery_count * 10000000, r.population)
        /\ r.population <= 0 => r.wineries_per_100k_people = 0
        /\ r.winery_count = 0 => r.density_per_km2 = 0

\* a counted region without area and a counted region without population, and
\* a positive per-capita value
C6_Witness ==
    /\ \E r \in StatsRows : r.area_km2 <= 0 /\ r.winery_count > 0
                            /\ r.population > 0 /\ r.wineries_per_100k_people > 0
    /\ \E r \in StatsRows : r.population <= 0 /\ r.winery_count > 0

\* C7 as claimed: the area of the "Other" row is strictly positive for every
\* catalog.
C7_OtherAreaPositive ==
    \A r \in StatsRows : r.district = Other => r.area_km2 > 0

RECURSIVE Total(_)
Total(areas) == IF areas = << >> THEN 0 ELSE Head(areas) + Total(Tail(areas))

\* C7 as amended: the area of the "Other" row is Berlin's area minus the sum of
\* the cataloged areas, unclamped, and when it is not positive the density of
\* the row is 0.
C7_OtherAreaIsRemainder ==
    \A r \in StatsRows : r.district = Other =>
        /\ r.area_km2 = 8917 - Total([i \in 1..Len(districts) |-> districts[i].area_km2])
        /\ r.area_km2 <= 0 => r.density_per_km2 = 0
        /\ r.area_km2 > 0 => Nearest(r.density_per_km2, r.winery_count * 10000, r.area_km2)

\* an "Other" row whose area is not positive
C7_Witness ==
    \E r \in StatsRows : r.district = Other /\ r.area_km2 <= 0 /\ r.winery_count > 0

----------------------------------------------------------------------------
(* numpy's global generator.  Its states lie on one cycle; a draw yields the *)
(* deviate of the current state and moves to the next state.  The deviates  *)
(* are one standard deviation below or above the mean; which deviate a     *)
(* state yields is fixed but arbitrary (stream).                            *)

NoiseZ == {-1, 1}
Streams == [0..(Period - 1) -> NoiseZ]

\* the state np.random.seed(42) puts the generator in
SeedState == 0

\* the standard normal deviate of the n-th draw (n = 0, 1, ...) after state s
Deviate(s, n) == stream[(s + n) % Period]

\* the last two calls are kept for comparison
LastTwo(seq) == IF Len(seq) > 2 THEN Tail(seq) ELSE seq

----------------------------------------------------------------------------
(* The historical synthesizer of the growth script.                        *)
(* Units: base_growth_rate in hundredths, year_modifier and random_factor  *)
(* in tenths, annual_growth and powers of (1 + annual_growth) in 1e-4,     *)
(* densities before rounding in 1e-5, the density and yoy_growth_rate of a *)
(* row in 1e-4 (round(x, 4)).                                              *)

FirstYear == 2014
LastYear == 2024

Ctx(base, peaks, pattern) ==
    [base_growth_rate |-> base, peak_growth_years |-> peaks, growth_pattern |-> pattern]

\* get_district_historical_context()
DistrictContext ==
    "Prenzlauer Berg" :> Ctx(8,  {2015, 2016, 2017},       "early_strong_then_stable") @@
    "Neukoelln"       :> Ctx(15, {2018, 2019, 2020, 2021}, "explosive_recent") @@
    "Friedrichshain"  :> Ctx(12, {2017, 2018, 2019},       "steady_strong") @@
    "Kreuzberg"       :> Ctx(10, {2016, 2017, 2018},       "early_strong_maturing") @@
    "Wedding"         :> Ctx(18, {2021, 2022, 2023},       "recent_emergence") @@
    "Mitte"           :> Ctx(5,  {2014, 2015, 2016},       "early_plateau") @@
    "Charlottenburg"  :> Ctx(6,  {2019, 2020, 2021},       "slow_steady") @@
    "Schoeneberg"     :> Ctx(9,  {2017, 2018, 2019},       "cultural_driven") @@
    "Tempelhof"       :> Ctx(7,  {2020, 2021, 2022},       "slow_recent") @@
    "Steglitz"        :> Ctx(8,  {2018, 2019, 2020},       "family_driven") @@
    "Wilmersdorf"     :> Ctx(7,  {2019, 2020, 2021},       "upscale_steady") @@
    "Spandau"         :> Ctx(12, {2022, 2023, 2024},       "late_emerging")

Without(context, name) == [n \in (DOMAIN context) \ {name} |-> context[n]]

\* the district_context arguments: the script's own, and one that lacks the
\* catalog's first district
Contexts == {DistrictContext, Without(DistrictContext, "Prenzlauer Berg")}

\* the tables the growth script is run on
GrowthPoints == {
    Pt(Num(52550), Num(13355)),   \* Wedding (and Mitte)
    Pt(Num(52525), Num(13385)) }  \* Mitte

GrowthTables ==
    {t \in Tables : \A i \in 1..Len(t) :
        Pt(t[i].latitude, t[i].longitude) \in GrowthPoints}

Max(a, b) == IF a >= b THEN a ELSE b

\* a mutant: every year is taken for a peak growth year
YearModifierPeak(year, context) == 13

\* year_modifier: 1.3 in a peak growth year, else 1.0
YearModifier(year, context) ==
    IF year \in context.peak_growth_years THEN 13 ELSE 10

\* random_factor = np.random.normal(1.0, 0.1)
RandomFactor(z) == 10 + z

\* annual_growth = base_decay * year_modifier * random_factor
AnnualGrowth(context, year, z) ==
    context.base_growth_rate * YearModifier(year, context) * RandomFactor(z)

\* (1 + annual_growth) ** years_back
RECURSIVE Power(_, _)
Power(annual_growth, years_back) ==
    IF years_back = 0 THEN 10000
    ELSE RoundDiv(Power(annual_growth, years_back - 1) * (10000 + annual_growth), 10000)

\* current_count / area_km2 if area_km2 > 0 else 0
CurrentDensity(current_count, area) ==
    IF area > 0 THEN RoundDiv(current_count * 1000000, area) ELSE 0

\* max(0, current_density / ((1 + annual_growth) ** years_back))
HistoricalDensity(current_density, annual_growth, years_back) ==
    Max(0, RoundDiv(current_density * 10000, Power(annual_growth, years_back)))

\* (curr - prev) / prev, or 1.0 / 0.0 when prev is 0; rounded to 4 decimals
YoYGrowthRate(prev_density, curr_density) ==
    IF prev_density > 0
    THEN RoundDiv((curr_density - prev_density) * 10000, prev_density)
    ELSE IF curr_density > 0 THEN 10000 ELSE 0

\* the rows of one district, chronological; the district is the j-th (from 0)
\* that the loop processes, and the generator was in state s when the loop began
DistrictHistory(info, context, current_count, j, s) ==
    LET n == LastYear - FirstYear
        current_density == CurrentDensity(current_count, info.area_km2)
        \* district_densities, chronological: the unrounded density and the
        \* count of each year; year LastYear - 1 takes the first draw
        district_densities == << >> \o [i \in 1..(n + 1) |->
            LET year == FirstYear + i - 1
                density ==
                    IF year = LastYear THEN current_density
                    ELSE HistoricalDensity(current_density,
                             AnnualGrowth(context, year,
                                 Deviate(s, j * n + (LastYear - 1 - year))),
                             LastYear - year)
            IN  [year |-> year,
                 density |-> RoundDiv(density, 10),
                 count |-> IF year = LastYear THEN current_count
                           ELSE (density * info.area_km2) \div 1000000]]
    IN  [i \in 1..(n + 1) |->
            [district |-> info.name,
             year |-> district_densities[i].year,
             density |-> district_densities[i].density,
             count |-> district_densities[i].count,
             area_km2 |-> info.area_km2,
             growth_pattern |-> context.growth_pattern,
             base_growth_rate |-> context.base_growth_rate,
             yoy_growth_rate |->
                 IF i = 1 THEN 0
                 ELSE YoYGrowthRate(district_densities[i - 1].density,
                                    district_densities[i].density)]]

\* the catalog entries the loop does not skip, in catalog order
Processed(district_context) ==
    SelectSeq(GrowthCatalog, LAMBDA info : info.name \in DOMAIN district_context)

RECURSIVE Concat(_, _)
Concat(seqs, n) == IF n = 0 THEN << >> ELSE Concat(seqs, n - 1) \o seqs[n]

\* historical_data of simulate_historical_winery_development(current_df, district_context)
HistoricalData(table, district_context) ==
    LET assigned == AssignRows(table, GrowthCatalog)
        processed == Processed(district_context)
        histories == [j \in 1..Len(processed) |->
            DistrictHistory(processed[j], district_context[processed[j].name],
                            CountIn(assigned, processed[j].name), j - 1, SeedState)]
    IN  Concat(histories, Len(histories))

simulate_historical_winery_development ==
    \E district_context \in Contexts :
        /\ current_df' = AssignRows(current_df, GrowthCatalog)
        /\ rng' = (SeedState + Len(Processed(district_context)) * (LastYear - FirstYear)) % Period
        /\ sim_runs' = LastTwo(Append(sim_runs,
               [district_context |-> district_context,
                historical_data |-> HistoricalData(current_df, district_context)]))
        /\ UNCHANGED <<assignVars, stream, winery_runs, analysisVars, mainVars>>

InitGrowth ==
    /\ current_df \in GrowthTables
    /\ stream \in Streams
    /\ rng \in 0..(Period - 1)
    /\ sim_runs = << >>
    /\ winery_runs = << >>
    /\ InitAnalysis
    /\ districts = DensityCatalog /\ df = << >> /\ district_stats_df = << >>
    /\ runs = 0 /\ wineries = << >> /\ done = {}

NextGrowth == simulate_historical_winery_development

SpecGrowth == InitGrowth /\ [][NextGrowth]_vars

----------------------------------------------------------------------------
(* Properties of the historical synthesizer *)

\* the rows of one district in the result of a call
SeriesOf(run, name) ==
    SelectSeq(run.historical_data, LAMBDA r : r.district = name)

\* C8: in every synthesized series the value of the present year T is the
\* present value V (count / area, to the 4 decimals of a row); the value of an
\* earlier year is V / (1 + effective_rate) ^ (T - year) to within one unit of
\* the 4th decimal, with effective_rate = base_rate * multiplier * noise for one
\* of the deviates, the multiplier being 1.3 in a peak growth year and 1.0 in
\* every other year; and no value is negative.
C8_SeriesFormula ==
    \A a \in DOMAIN sim_runs :
        LET data == sim_runs[a].historical_data
        IN  \A i \in DOMAIN data :
                LET r == data[i]
                    context == sim_runs[a].district_context[r.district]
                    present == data[i + (LastYear - r.year)]
                    V == CurrentDensity(present.count, present.area_km2)
                IN  /\ r.density >= 0
                    /\ present.district = r.district /\ present.year = LastYear
                    /\ r.year = LastYear => r.density = RoundDiv(V, 10)
                    /\ r.year < LastYear =>
                           \E z \in NoiseZ :
                               LET multiplier ==
                                       IF r.year \in context.peak_growth_years
                                       THEN 13 ELSE 10
                                   effective_rate ==
                                       context.base_growth_rate * multiplier * (10 + z)
                                   P == Power(effective_rate, LastYear - r.year)
                               IN  Abs(r.density * P - V * 1000) <= P

\* a series with a positive value in a peak growth year and in an earlier year
\* that is in no peak window
C8_Witness ==
    \E a \in DOMAIN sim_runs :
        LET data == sim_runs[a].historical_data
        IN  \E i, k \in DOMAIN data :
                /\ data[i].district = data[k].district
                /\ data[i].density > 0 /\ data[k].density > 0
                /\ data[i].year < LastYear /\ data[k].year < LastYear
                /\ data[i].year \in
                       sim_runs[a].district_context[data[i].district].peak_growth_years
                /\ data[k].year \notin
                       sim_runs[a].district_context[data[k].district].peak_growth_years

\* C9: the series of a district depends only on the seed, the district, the
\* year, the present value and the growth profile: two calls on the same table
\* give a district the same series whichever other districts they process.
C9_KeyedNoise ==
    \A a, b \in DOMAIN sim_runs :
        \A name \in DOMAIN sim_runs[a].district_context :
            (/\ name \in DOMAIN sim_runs[b].district_context
             /\ sim_runs[a].district_context[name] = sim_runs[b].district_context[name])
            => SeriesOf(sim_runs[a], name) = SeriesOf(sim_runs[b], name)

\* the districts that have rows in the result of a call
SeriesNames(run) ==
    {run.historical_data[i].district : i \in DOMAIN run.historical_data}

\* C11: every synthesized series is in strictly ascending year order with
\* exactly one entry per requested year, its values are non-negative, and
\* (all effective rates being non-negative) each value is at most the value of
\* the next year and no value exceeds the present value.
C11_AscendingMonotonic ==
    \A a \in DOMAIN sim_runs :
        \A name \in SeriesNames(sim_runs[a]) :
            LET series == SeriesOf(sim_runs[a], name)
            IN  /\ Len(series) = LastYear - FirstYear + 1
                /\ \A i \in DOMAIN series :
                       /\ series[i].year = FirstYear + i - 1
                       /\ series[i].density >= 0
                       /\ series[i].density <= series[Len(series)].density
                       /\ i < Len(series) => series[i].density <= series[i + 1].density

\* C12: in every series the rate of a year after the first is
\* (value[y] - value[y-1]) / value[y-1] when value[y-1] > 0 (to the 4 decimals
\* of a row), 1.0 when value[y-1] = 0 and value[y] > 0, 0.0 when both are 0;
\* the first year has no defined rate (its rate is not a number).
C12_YoYRate ==
    \A a \in DOMAIN sim_runs :
        \A name \in SeriesNames(sim_runs[a]) :
            LET series == SeriesOf(sim_runs[a], name)
            IN  \A i \in DOMAIN series :
                    LET rate == series[i].yoy_growth_rate
                    IN  IF i = 1 THEN rate \notin Int
                        ELSE LET prev == series[i - 1].density
                                 curr == series[i].density
                             IN  /\ prev > 0 => Nearest(rate, (curr - prev) * 10000, prev)
                                 /\ (prev = 0 /\ curr > 0) => rate = 10000
                                 /\ (prev = 0 /\ curr = 0) => rate = 0

----------------------------------------------------------------------------
(* The winery series of the temporal script.                                *)
(* Units: winery_count and winery_growth_absolute in thousandths of a       *)
(* winery, growth rates and volatility in thousandths.  The years are       *)
(* FirstYear..LastYear here too.                                            *)

Pattern(district, base_count, phases, volatility) ==
    [district |-> district, base_count_2014 |-> base_count,
     growth_phases |-> phases, volatility |-> volatility]

\* winery_patterns of get_annual_winery_growth_data, in dict order
WineryPatterns == <<
    Pattern("Neukoelln", 2,
        << <<2014, 2016, 100>>, <<2017, 2019, 400>>, <<2020, 2022, 600>>,
           <<2023, 2024, 300>> >>, 300),
    Pattern("Wedding", 1,
        << <<2014, 2017, 50>>, <<2018, 2020, 300>>, <<2021, 2023, 500>>,
           <<2024, 2024, 400>> >>, 400),
    Pattern("Friedrichshain", 4,
        << <<2014, 2015, 200>>, <<2016, 2018, 500>>, <<2019, 2021, 400>>,
           <<2022, 2024, 200>> >>, 250),
    Pattern("Kreuzberg", 6,
        << <<2014, 2016, 300>>, <<2017, 2019, 400>>, <<2020, 2022, 200>>,
           <<2023, 2024, 100>> >>, 200),
    Pattern("Prenzlauer Berg", 8,
        << <<2014, 2017, 250>>, <<2018, 2020, 150>>, <<2021, 2024, 50>> >>, 150),
    Pattern("Mitte", 10,
        << <<2014, 2017, 200>>, <<2018, 2021, 100>>, <<2022, 2024, 50>> >>, 100) >>

\* the rate of the first phase that contains the year, from the i-th phase on;
\* 0 when there is none
RECURSIVE PhaseRate(_, _, _)
PhaseRate(i, growth_phases, year) ==
    IF i > Len(growth_phases) THEN 0
    ELSE IF growth_phases[i][1] <= year /\ year <= growth_phases[i][2]
         THEN growth_phases[i][3]
         ELSE PhaseRate(i + 1, growth_phases, year)

\* growth_rate += np.random.normal(0, volatility / 5); growth_rate = max(0, growth_rate)
GrowthRate(pattern, year, z) ==
    Max(0, PhaseRate(1, pattern.growth_phases, year) + z * (pattern.volatility \div 5))

\* the growth rate of a year of the j-th pattern (from 0), the generator being
\* in state s when the function began: each year before LastYear takes one draw
RateOf(pattern, j, s, year) ==
    GrowthRate(pattern, year,
               Deviate(s, j * (LastYear - FirstYear) + (year - FirstYear)))

\* count at the start of a year: count = count * (1 + growth_rate) year by year
RECURSIVE CountAt(_, _, _, _)
CountAt(pattern, j, s, year) ==
    IF year = FirstYear THEN pattern.base_count_2014 * 1000
    ELSE RoundDiv(CountAt(pattern, j, s, year - 1)
                      * (1000 + RateOf(pattern, j, s, year - 1)), 1000)

\* the rows of one district
WineryRows(pattern, j, s) ==
    [i \in 1..(LastYear - FirstYear + 1) |->
        LET year == FirstYear + i - 1
        IN  IF year = LastYear
            THEN [district |-> pattern.district, year |-> year,
                  winery_count |-> CountAt(pattern, j, s, year),
                  annual_growth_rate |-> 0,
                  winery_growth_absolute |-> 0]
            ELSE [district |-> pattern.district, year |-> year,
                  winery_count |-> CountAt(pattern, j, s, year),
                  annual_growth_rate |-> RateOf(pattern, j, s, year),
                  winery_growth_absolute |->
                      CountAt(pattern, j, s, year + 1) - CountAt(pattern, j, s, year)]]

\* winery_data of get_annual_winery_growth_data(), the generator being in state s
WineryData(s) ==
    LET rows == [j \in 1..Len(WineryPatterns) |-> WineryRows(WineryPatterns[j], j - 1, s)]
    IN  Concat(rows, Len(rows))

\* the function draws from the global generator as it finds it
get_annual_winery_growth_data ==
    /\ winery_runs' = LastTwo(Append(winery_runs, WineryData(rng)))
    /\ rng' = (rng + Len(WineryPatterns) * (LastYear - FirstYear)) % Period
    /\ UNCHANGED <<assignVars, current_df, stream, sim_runs, analysisVars, mainVars>>

\* a new run of the script: importing numpy seeds the global generator from
\* the operating system's entropy, so it starts in any state
ImportNumpy ==
    /\ rng' \in 0..(Period - 1)
    /\ UNCHANGED <<assignVars, current_df, stream, sim_runs, winery_runs, analysisVars, mainVars>>

InitTemporal ==
    /\ stream \in Streams
    /\ rng \in 0..(Period - 1)
    /\ sim_runs = << >>
    /\ winery_runs = << >>
    /\ InitAnalysis
    /\ current_df = << >>
    /\ districts = DensityCatalog /\ df = << >> /\ district_stats_df = << >>
    /\ runs = 0 /\ wineries = << >> /\ done = {}

NextTemporal == get_annual_winery_growth_data \/ ImportNumpy

SpecTemporal == InitTemporal /\ [][NextTemporal]_vars

\* C10: two runs of a synthesizer on the same inputs give the same output,
\* whatever was drawn from the generator before: every two results of
\* get_annual_winery_growth_data are equal, and so are every two results of
\* simulate_historical_winery_development for the same district_context.
C10_Reproducible ==
    /\ \A a, b \in DOMAIN winery_runs : winery_runs[a] = winery_runs[b]
    /\ \A a, b \in DOMAIN sim_runs :
           sim_runs[a].district_context = sim_runs[b].district_context
           => sim_runs[a].historical_data = sim_runs[b].historical_data

----------------------------------------------------------------------------
(* calculate_growth_metrics of the growth script.                           *)
(* Units: densities and every rate (total_growth_rate, cagr,                *)
(* avg_annual_growth, growth_volatility, peak_growth_rate) in 1e-4, as      *)
(* round(x, 4) reports them.                                                *)

MaxLen == 3

\* the densities of the frames calculate_growth_metrics is given directly
DensityValues == {0, 1000, 2000}

RECURSIVE SeqsUpTo(_, _)
SeqsUpTo(values, n) ==
    IF n = 0 THEN {<< >>}
    ELSE LET shorter == SeqsUpTo(values, n - 1)
         IN  shorter \cup {Append(q, v) : q \in shorter, v \in values}

\* the rows of a series with the given densities in the years from FirstYear
\* on, with the rates simulate_historical_winery_development gives its rows
SeriesRows(name, densities) ==
    [i \in 1..Len(densities) |->
        [district |-> name,
         year |-> FirstYear + i - 1,
         density |-> densities[i],
         area_km2 |-> 100,
         growth_pattern |-> "steady",
         yoy_growth_rate |->
             IF i = 1 THEN 0 ELSE YoYGrowthRate(densities[i - 1], densities[i])]]

\* frames of a district A with 1..MaxLen years and, in some, a district B
\* with 1 or 2 years
DirectFrames ==
    {SeriesRows("A", q) \o second :
        q \in SeqsUpTo(DensityValues, MaxLen) \ {<< >>},
        second \in {<< >>, SeriesRows("B", <<1000>>), SeriesRows("B", <<1000, 2000>>)}}

\* historical_df['district'].unique(): the districts in order of first appearance
Unique(frame) ==
    LET firsts == {i \in DOMAIN frame :
                      \A k \in 1..(i - 1) : frame[k].district # frame[i].district}
    IN  [j \in 1..Cardinality(firsts) |->
            frame[CHOOSE i \in firsts : Cardinality({k \in firsts : k < i}) = j - 1].district]

\* sort_values('year'): ascending, the order of equal years is kept
RECURSIVE InsertByYear(_, _)
InsertByYear(sorted, row) ==
    IF sorted = << >> THEN << row >>
    ELSE IF Head(sorted).year <= row.year
         THEN << Head(sorted) >> \o InsertByYear(Tail(sorted), row)
         ELSE << row >> \o sorted

RECURSIVE SortByYear(_, _)
SortByYear(rows, n) ==
    IF n = 0 THEN << >> ELSE InsertByYear(SortByYear(rows, n - 1), rows[n])

\* district_data: the rows of a district, by year
DistrictData(frame, name) ==
    LET rows == SelectSeq(frame, LAMBDA r : r.district = name)
    IN  SortByYear(rows, Len(rows))

\* a mutant: the special case of a start of 0 is left out
TotalGrowthRateNoGuard(start_density, end_density) ==
    IF start_density > 0
    THEN RoundDiv((end_density - start_density) * 10000, start_density)
    ELSE 0

\* total_growth_rate
TotalGrowthRate(start_density, end_density) ==
    IF start_density > 0
    THEN RoundDiv((end_density - start_density) * 10000, start_density)
    ELSE IF end_density > 0 THEN 10000 ELSE 0

\* (1 + rate) ** years, at most a little over cap (the powers beyond cap are
\* not computed further)
RECURSIVE PowerUpTo(_, _, _)
PowerUpTo(rate, years, cap) ==
    IF years = 0 THEN 10000
    ELSE LET p == PowerUpTo(rate, years - 1, cap)
         IN  IF p > (cap * 10000) \div (10000 + rate) THEN cap + 1
             ELSE RoundDiv(p * (10000 + rate), 10000)

\* the greatest rate in lo..hi with (1 + rate) ** years <= ratio
RECURSIVE RootRate(_, _, _, _)
RootRate(ratio, years, lo, hi) ==
    IF lo >= hi THEN lo
    ELSE LET mid == (lo + hi + 1) \div 2
         IN  IF PowerUpTo(mid, years, ratio) <= ratio
             THEN RootRate(ratio, years, mid, hi)
             ELSE RootRate(ratio, years, lo, mid - 1)

\* cagr: ((end_density / start_density) ** (1 / years_span)) - 1, to within
\* one unit of the 4th decimal
Cagr(start_density, end_density, years_span) ==
    IF start_density > 0 /\ years_span > 0
    THEN LET ratio == RoundDiv(end_density * 10000, start_density)
         IN  IF ratio = 0 THEN -10000
             ELSE LET below == RootRate(ratio, years_span, -9999,
                                        Max(ratio, 10000) - 10000)
                  IN  \* the nearer of the two rates around the root
                      IF ratio - PowerUpTo(below, years_span, ratio)
                             <= PowerUpTo(below + 1, years_span, 2 * ratio) - ratio
                      THEN below ELSE below + 1
    ELSE 0

RECURSIVE SumRates(_, _)
SumRates(rows, n) ==
    IF n = 0 THEN 0 ELSE SumRates(rows, n - 1) + rows[n].yoy_growth_rate

\* district_data['yoy_growth_rate'].mean()
MeanRate(rows) == RoundDiv(SumRates(rows, Len(rows)), Len(rows))

\* the greatest r with r * r <= n
RECURSIVE Isqrt(_, _, _)
Isqrt(n, lo, hi) ==
    IF lo >= hi THEN lo
    ELSE LET mid == (lo + hi + 1) \div 2
         IN  IF mid * mid <= n THEN Isqrt(n, mid, hi) ELSE Isqrt(n, lo, mid - 1)

RECURSIVE SumSquares(_, _)
SumSquares(rows, n) ==
    IF n = 0 THEN 0
    ELSE SumSquares(rows, n - 1) + rows[n].yoy_growth_rate * rows[n].yoy_growth_rate

\* district_data['yoy_growth_rate'].std(): the sample standard deviation
StdRate(rows) ==
    LET n == Len(rows)
        total == SumRates(rows, n)
        variance == (n * SumSquares(rows, n) - total * total) \div (n * (n - 1))
    IN  Isqrt(variance, 0, 20000)

\* district_data['yoy_growth_rate'].idxmax(): the first row with the greatest
\* rate, among the first n rows
RECURSIVE IdxMax(_, _)
IdxMax(rows, n) ==
    IF n = 1 THEN 1
    ELSE LET best == IdxMax(rows, n - 1)
         IN  IF rows[n].yoy_growth_rate > rows[best].yoy_growth_rate THEN n ELSE best

\* metrics of one district
Metrics(name, district_data) ==
    LET first == district_data[1]
        last == district_data[Len(district_data)]
        peak == district_data[IdxMax(district_data, Len(district_data))]
    IN  [district |-> name,
         start_density_2014 |-> first.density,
         end_density_2024 |-> last.density,
         total_growth_rate |-> TotalGrowthRate(first.density, last.density),
         cagr |-> Cagr(first.density, last.density, last.year - first.year),
         avg_annual_growth |-> MeanRate(district_data),
         growth_volatility |-> StdRate(district_data),
         peak_growth_year |-> peak.year,
         peak_growth_rate |-> peak.yoy_growth_rate,
         growth_pattern |-> first.growth_pattern,
         area_km2 |-> first.area_km2]

\* sort_values('cagr', ascending=False)
RECURSIVE InsertByCagr(_, _)
InsertByCagr(sorted, row) ==
    IF sorted = << >> THEN << row >>
    ELSE IF Head(sorted).cagr >= row.cagr
         THEN << Head(sorted) >> \o InsertByCagr(Tail(sorted), row)
         ELSE << row >> \o sorted

RECURSIVE SortByCagr(_, _)
SortByCagr(rows, n) ==
    IF n = 0 THEN << >> ELSE InsertByCagr(SortByCagr(rows, n - 1), rows[n])

\* growth_metrics: a row for every district with at least 2 rows
RECURSIVE GrowthMetricsOf(_, _, _)
GrowthMetricsOf(frame, names, n) ==
    IF n = 0 THEN << >>
    ELSE LET district_data == DistrictData(frame, names[n])
             before == GrowthMetricsOf(frame, names, n - 1)
         IN  IF Len(district_data) < 2 THEN before
             ELSE Append(before, Metrics(names[n], district_data))

\* the outcome of calculate_growth_metrics(frame): the frame of the metrics,
\* or the KeyError that sort_values('cagr') raises on the frame without
\* columns that pd.DataFrame([]) is
GrowthMetrics(frame) ==
    LET names == Unique(frame)
        growth_metrics == GrowthMetricsOf(frame, names, Len(names))
    IN  IF growth_metrics = << >>
        THEN [kind |-> "raise", error |-> "KeyError"]
        ELSE [kind |-> "frame",
              rows |-> SortByCagr(growth_metrics, Len(growth_metrics))]

calculate_growth_metrics ==
    /\ growth_metrics_df = NotCalled
    /\ growth_metrics_df' = GrowthMetrics(historical_df)
    /\ UNCHANGED <<assignVars, current_df, synthVars, historical_df,
                   winery_rates, re_rates, max_lag, cross_corr, report, mainVars>>

\* calculate_growth_metrics is given a frame directly, or the frame that
\* simulate_historical_winery_development returns in main
InitMetrics ==
    /\ \/ /\ stream = << >>
          /\ current_df = << >>
          /\ historical_df \in DirectFrames
       \/ /\ stream \in Streams
          /\ current_df \in GrowthTables
          /\ historical_df = HistoricalData(current_df, DistrictContext)
    /\ rng = SeedState
    /\ sim_runs = << >> /\ winery_runs = << >>
    /\ growth_metrics_df = NotCalled
    /\ winery_rates = << >> /\ re_rates = << >> /\ max_lag = 0
    /\ cross_corr = NotCalled /\ report = NotCalled
    /\ NoPipeline
    /\ districts = DensityCatalog /\ df = << >> /\ district_stats_df = << >>
    /\ runs = 0 /\ wineries = << >> /\ done = {}

NextMetrics == calculate_growth_metrics

SpecMetrics == InitMetrics /\ [][NextMetrics]_vars

----------------------------------------------------------------------------
(* Properties of calculate_growth_metrics *)

\* the rows of a district in the argument
RowsOfDistrict(name) ==
    {historical_df[i] : i \in {k \in DOMAIN historical_df : historical_df[k].district = name}}

DistrictsGiven == {historical_df[i].district : i \in DOMAIN historical_df}

\* the rows of the earliest and of the latest year of a district
Earliest(name) ==
    CHOOSE r \in RowsOfDistrict(name) : \A q \in RowsOfDistrict(name) : r.year <= q.year
Latest(name) ==
    CHOOSE r \in RowsOfDistrict(name) : \A q \in RowsOfDistrict(name) : r.year >= q.year

Called == growth_metrics_df # NotCalled
Summarized == Called /\ growth_metrics_df.kind = "frame"
MetricsRows ==
    {growth_metrics_df.rows[i] : i \in DOMAIN growth_metrics_df.rows}

\* C13: for a district with fewer than 2 rows the call reports insufficient
\* data explicitly: it does not raise, the outcome has an entry for the
\* district, and that entry carries no growth figure; a district with 2 or
\* more rows in the same frame is summarized.
C13_InsufficientDataReported ==
    Called =>
        /\ growth_metrics_df.kind = "frame"
        /\ \A name \in DistrictsGiven :
               IF Cardinality(RowsOfDistrict(name)) < 2
               THEN \E row \in MetricsRows :
                        row.district = name /\ "total_growth_rate" \notin DOMAIN row
               ELSE \E row \in MetricsRows :
                        row.district = name /\ "total_growth_rate" \in DOMAIN row

\* C14: for every summarized series total_growth_rate is (end - start) / start
\* when start > 0 (to 4 decimals), 1.0 when start = 0 and end > 0, and 0.0
\* when both are 0, start and end being the values of the earliest and the
\* latest year.
C14_TotalGrowth ==
    Summarized =>
        \A row \in MetricsRows :
            LET start == Earliest(row.district).density
                end == Latest(row.district).density
            IN  /\ start > 0 =>
                       Nearest(row.total_growth_rate, (end - start) * 10000, start)
                /\ (start = 0 /\ end > 0) => row.total_growth_rate = 10000
                /\ (start = 0 /\ end = 0) => row.total_growth_rate = 0

\* summaries of a series that starts at 0 and ends above 0, and of one that
\* starts above 0
C14_Witness ==
    /\ Summarized
    /\ \E row \in MetricsRows :
           Earliest(row.district).density = 0 /\ Latest(row.district).density > 0
    /\ \E row \in MetricsRows :
           /\ Earliest(row.district).density > 0
           /\ Latest(row.district).density # Earliest(row.district).density

Sign(v) == IF v > 0 THEN 1 ELSE IF v < 0 THEN -1 ELSE 0

\* C15: cagr is (end / start) ^ (1 / years) - 1 when start > 0 (the powers of
\* 1 + cagr one unit below and above enclose end / start), 1.0 when start = 0
\* and end > 0, 0.0 when both are 0; cagr and total_growth_rate have the same
\* sign.
C15_Cagr ==
    Summarized =>
        \A row \in MetricsRows :
            LET start == Earliest(row.district).density
                end == Latest(row.district).density
                years == Latest(row.district).year - Earliest(row.district).year
                ratio == RoundDiv(end * 10000, start)
            IN  /\ (start > 0 /\ end = 0) => row.cagr = -10000
                /\ (start > 0 /\ end > 0) =>
                       /\ PowerUpTo(row.cagr - 1, years, ratio) <= ratio
                       /\ PowerUpTo(row.cagr + 1, years, 2 * ratio) >= ratio
                /\ (start = 0 /\ end > 0) => row.cagr = 10000
                /\ (start = 0 /\ end = 0) => row.cagr = 0
                /\ Sign(row.cagr) = Sign(row.total_growth_rate)

\* C16: the summary of a series that is strictly increasing year over year,
\* its first value possibly 0, has cagr > 0 and total_growth_rate > 0.
C16_IncreasingPositive ==
    Summarized =>
        \A row \in MetricsRows :
            (\A r, q \in RowsOfDistrict(row.district) : r.year < q.year => r.density < q.density)
            => row.cagr > 0 /\ row.total_growth_rate > 0

\* the sum of the rates of the rows of a set
RECURSIVE SumOfRates(_)
SumOfRates(rows) ==
    IF rows = {} THEN 0
    ELSE LET r == CHOOSE r \in rows : TRUE
         IN  r.yoy_growth_rate + SumOfRates(rows \ {r})

\* C17: avg_annual_growth is the mean of the rates of the years after the
\* first: a series of n rows averages n - 1 rates.
C17_MeanExcludesFirst ==
    Summarized =>
        \A row \in MetricsRows :
            LET defined == RowsOfDistrict(row.district) \ {Earliest(row.district)}
            IN  Nearest(row.avg_annual_growth, SumOfRates(defined), Cardinality(defined))

\* C18: peak_growth_year is the year of the greatest rate among the years
\* after the first, the earliest such year on ties, and peak_growth_rate is
\* its rate; the first year is never the peak year.
C18_PeakYear ==
    Summarized =>
        \A row \in MetricsRows :
            LET defined == RowsOfDistrict(row.district) \ {Earliest(row.district)}
            IN  \E peak \in defined :
                    /\ row.peak_growth_year = peak.year
                    /\ row.peak_growth_rate = peak.yoy_growth_rate
                    /\ \A r \in defined :
                           \/ r.yoy_growth_rate < peak.yoy_growth_rate
                           \/ r.yoy_growth_rate = peak.yoy_growth_rate /\ r.year >= peak.year

----------------------------------------------------------------------------
(* calculate_cross_correlation of the temporal script.                      *)
(* A correlation coefficient r is kept as the pair (num, den2) with         *)
(* r = num / sqrt(den2): num = n*Sxy - Sx*Sy and                            *)
(* den2 = (n*Sxx - Sx*Sx) * (n*Syy - Sy*Sy).  A p-value is a function of r  *)
(* and the sample size n and is kept as n.                                  *)

MaxSamples == 5

\* the values of the two rate series
RateValues == {1, 2}

RateSeries == SeqsUpTo(RateValues, MaxSamples)

\* max_lag: 3 by default, 2 in the calls of the script
MaxLags == {2, 3}

RECURSIVE SumSeq(_, _)
SumSeq(xs, n) == IF n = 0 THEN 0 ELSE SumSeq(xs, n - 1) + xs[n]

RECURSIVE SumProd(_, _, _)
SumProd(xs, ys, n) == IF n = 0 THEN 0 ELSE SumProd(xs, ys, n - 1) + xs[n] * ys[n]

Coefficient(num, den2) == [kind |-> "num", num |-> num, den2 |-> den2]
PValue(n) == [kind |-> "num", n |-> n]
NaNPair == [kind |-> "ok", correlation |-> [kind |-> "nan"], p_value |-> [kind |-> "nan"]]
ValueError == [kind |-> "raise", error |-> "ValueError"]

\* scipy.stats.pearsonr(xs, ys) on two arrays of one length.  On fewer than 2
\* samples it raises ValueError or gives nan, depending on the scipy that is
\* installed (short_raises); on a constant array it gives nan.
pearsonr(xs, ys, short_raises) ==
    LET n == Len(xs)
        num == n * SumProd(xs, ys, n) - SumSeq(xs, n) * SumSeq(ys, n)
        den2 == (n * SumProd(xs, xs, n) - SumSeq(xs, n) * SumSeq(xs, n))
                    * (n * SumProd(ys, ys, n) - SumSeq(ys, n) * SumSeq(ys, n))
    IN  IF n < 2 THEN (IF short_raises THEN ValueError ELSE NaNPair)
        ELSE IF den2 = 0 THEN NaNPair
        ELSE [kind |-> "ok", correlation |-> Coefficient(num, den2), p_value |-> PValue(n)]

Min(a, b) == IF a <= b THEN a ELSE b

\* corr, p_val of one lag, x and y being cut to one length already
LagCorrelation(x, y, lag, short_raises) ==
    IF lag = 0 THEN pearsonr(x, y, short_raises)
    ELSE IF lag > 0
         THEN IF Len(x) > lag
              THEN pearsonr(SubSeq(x, 1, Len(x) - lag), SubSeq(y, lag + 1, Len(y)),
                            short_raises)
              ELSE NaNPair
         ELSE IF Len(y) > -lag
              THEN pearsonr(SubSeq(x, 1 - lag, Len(x)), SubSeq(y, 1, Len(y) + lag),
                            short_raises)
              ELSE NaNPair

Interpretation(lag) ==
    IF lag = 0 THEN "simultaneous"
    ELSE IF lag > 0 THEN "winery leads by " \o ToString(lag) \o " year(s)"
         ELSE "real estate leads by " \o ToString(-lag) \o " year(s)"

\* the outcome of calculate_cross_correlation(x, y, max_lag): the dict of the
\* lags, or the exception of the first lag whose pearsonr raises
CrossCorrelation(x_in, y_in, lags, short_raises) ==
    LET min_len == Min(Len(x_in), Len(y_in))
        x == SubSeq(x_in, 1, min_len)
        y == SubSeq(y_in, 1, min_len)
        results == [lag \in (-lags)..lags |-> LagCorrelation(x, y, lag, short_raises)]
    IN  IF \E lag \in (-lags)..lags : results[lag].kind = "raise"
        THEN ValueError
        ELSE [kind |-> "dict",
              correlations |->
                  [lag \in (-lags)..lags |->
                      [correlation |-> results[lag].correlation,
                       p_value |-> results[lag].p_value,
                       interpretation |-> Interpretation(lag)]]]

calculate_cross_correlation ==
    /\ cross_corr = NotCalled
    /\ \E short_raises \in BOOLEAN :
           cross_corr' = CrossCorrelation(winery_rates, re_rates, max_lag, short_raises)
    /\ UNCHANGED <<assignVars, current_df, synthVars, historical_df, growth_metrics_df,
                   winery_rates, re_rates, max_lag, report, mainVars>>

\* a > b on two correlations as Python compares floats: False when either is
\* NaN; num / sqrt(den2) is compared through signs and squares
Greater(a, b) ==
    /\ a.kind = "num" /\ b.kind = "num"
    /\ IF a.num >= 0
       THEN IF b.num >= 0 THEN a.num * a.num * b.den2 > b.num * b.num * a.den2
            ELSE TRUE
       ELSE IF b.num >= 0 THEN FALSE
            ELSE a.num * a.num * b.den2 < b.num * b.num * a.den2

\* max(cross_corr.keys(), key=lambda k: cross_corr[k]['correlation']) over the
\* keys from -lags up to k, in the order they were inserted: the key at hand
\* is replaced only by a key whose correlation is greater
RECURSIVE MaxKey(_, _, _)
MaxKey(correlations, lags, k) ==
    IF k = -lags THEN k
    ELSE LET best == MaxKey(correlations, lags, k - 1)
         IN  IF Greater(correlations[k].correlation, correlations[best].correlation)
             THEN k ELSE best

\* the interpretation the report gives the best lag
ReportInterpretation(best_lag) ==
    IF best_lag > 0 THEN "Winery growth leads by " \o ToString(best_lag) \o " year(s)"
    ELSE IF best_lag = 0 THEN "Simultaneous growth"
         ELSE "Real estate leads by " \o ToString(-best_lag) \o " year(s)"

\* generate_leading_indicator_report, for one district's lag table: best_lag,
\* best_corr and the interpretation
generate_leading_indicator_report ==
    /\ cross_corr.kind = "dict"
    /\ report = NotCalled
    /\ LET best_lag == MaxKey(cross_corr.correlations, max_lag, max_lag)
       IN  report' = [kind |-> "report",
                      best_lag |-> best_lag,
                      best_corr |-> cross_corr.correlations[best_lag].correlation,
                      interpretation |-> ReportInterpretation(best_lag)]
    /\ UNCHANGED <<assignVars, current_df, synthVars, historical_df, growth_metrics_df,
                   winery_rates, re_rates, max_lag, cross_corr, mainVars>>

\* X = [1, 2, 3, 4, 5] of the years 2020-2024 and Y of the years 2021-2024 with
\* Y(year) = X(year - 1)
ScenarioX == <<1, 2, 3, 4, 5>>
ScenarioY == <<1, 2, 3, 4>>

InitCorrelation ==
    /\ \/ winery_rates \in RateSeries /\ re_rates \in RateSeries
       \/ winery_rates = ScenarioX /\ re_rates = ScenarioY
    /\ max_lag \in MaxLags
    /\ cross_corr = NotCalled /\ report = NotCalled
    /\ NoPipeline
    /\ historical_df = << >> /\ growth_metrics_df = NotCalled
    /\ stream = << >> /\ rng = 0 /\ sim_runs = << >> /\ winery_runs = << >>
    /\ current_df = << >>
    /\ districts = DensityCatalog /\ df = << >> /\ district_stats_df = << >>
    /\ runs = 0 /\ wineries = << >> /\ done = {}

NextCorrelation == calculate_cross_correlation \/ generate_leading_indicator_report

SpecCorrelation == InitCorrelation /\ [][NextCorrelation]_vars

----------------------------------------------------------------------------
(* Properties of calculate_cross_correlation *)

\* the common length of the two series
CommonLength == Min(Len(winery_rates), Len(re_rates))

\* the pairs of a lag: X[i] with Y[i + lag] for lag >= 0, X[i + |lag|] with
\* Y[i] for lag < 0, i from 0 (the sequences here count from 1)
PairsOfLag(lag) ==
    [i \in 1..(CommonLength - Abs(lag)) |->
        IF lag >= 0 THEN <<winery_rates[i], re_rates[i + lag]>>
        ELSE <<winery_rates[i - lag], re_rates[i]>>]

\* the coefficient of a sequence of pairs: nan when it has no variance
CoefficientOfPairs(pairs) ==
    LET n == Len(pairs)
        a == [i \in 1..n |-> pairs[i][1]]
        b == [i \in 1..n |-> pairs[i][2]]
        num == n * SumProd(a, b, n) - SumSeq(a, n) * SumSeq(b, n)
        den2 == (n * SumProd(a, a, n) - SumSeq(a, n) * SumSeq(a, n))
                    * (n * SumProd(b, b, n) - SumSeq(b, n) * SumSeq(b, n))
    IN  IF den2 = 0 THEN [kind |-> "nan"] ELSE Coefficient(num, den2)

CorrelationCalled == cross_corr # NotCalled

\* C19: the call returns one result for every lag in -max_lag..max_lag and for
\* no other key, and the result of a lag is the correlation of the pairs
\* X[i], Y[i+lag] (lag >= 0) or X[i+|lag|], Y[i] (lag < 0), n - |lag| of them.
C19_LagTable ==
    CorrelationCalled =>
        /\ cross_corr.kind = "dict"
        /\ DOMAIN cross_corr.correlations = (-max_lag)..max_lag
        /\ \A lag \in (-max_lag)..max_lag :
               /\ cross_corr.correlations[lag].correlation
                      = CoefficientOfPairs(PairsOfLag(lag))
               /\ cross_corr.correlations[lag].correlation.kind = "num" =>
                      cross_corr.correlations[lag].p_value
                          = PValue(CommonLength - Abs(lag))

\* C20: the result of every lag with fewer than 3 pairs is the undefined
\* marker, without coefficient and without p-value: the call does not raise,
\* and the lag's correlation and p-value are neither a number nor NaN.
C20_ShortOverlapUndefined ==
    CorrelationCalled =>
        /\ cross_corr.kind = "dict"
        /\ \A lag \in (-max_lag)..max_lag :
               CommonLength - Abs(lag) < 3 =>
                   /\ cross_corr.correlations[lag].correlation.kind = "undefined"
                   /\ cross_corr.correlations[lag].p_value.kind = "undefined"

Reported == report # NotCalled

\* the lags of the table with a defined correlation
DefinedLags ==
    {lag \in (-max_lag)..max_lag : cross_corr.correlations[lag].correlation.kind = "num"}

\* C21: the best lag is a lag of maximum defined correlation; among the lags
\* of maximum correlation it has the smallest absolute value, and of +k and -k
\* it is the negative one; a lag with an undefined correlation is not chosen
\* when some lag is defined.
C21_BestLag ==
    Reported =>
        (DefinedLags # {} =>
            /\ report.best_lag \in DefinedLags
            /\ \A lag \in DefinedLags :
                   LET best == cross_corr.correlations[report.best_lag].correlation
                       other == cross_corr.correlations[lag].correlation
                   IN  /\ ~Greater(other, best)
                       /\ ~Greater(best, other) =>
                              \/ Abs(report.best_lag) < Abs(lag)
                              \/ Abs(report.best_lag) = Abs(lag) /\ report.best_lag <= lag)

\* C22: for X = [1,2,3,4,5] and Y(year) = X(year - 1) the best lag is +1, its
\* correlation is exactly 1.0 and the report says that X leads by 1 year; in
\* every table lag 0 is labeled simultaneous, a positive lag as X leading by
\* lag and a negative lag as Y leading by |lag|.
C22_ScenarioAndLabels ==
    /\ (CorrelationCalled /\ cross_corr.kind = "dict") =>
           \A lag \in (-max_lag)..max_lag :
               cross_corr.correlations[lag].interpretation =
                   IF lag = 0 THEN "simultaneous"
                   ELSE IF lag > 0 THEN "winery leads by " \o ToString(lag) \o " year(s)"
                        ELSE "real estate leads by " \o ToString(-lag) \o " year(s)"
    /\ (Reported /\ winery_rates = ScenarioX /\ re_rates = ScenarioY) =>
           /\ report.best_lag = 1
           /\ report.best_corr.kind = "num"
           /\ report.best_corr.num > 0
           /\ report.best_corr.num * report.best_corr.num = report.best_corr.den2
           /\ report.interpretation = "Winery growth leads by 1 year(s)"

(***************************************************************************)
(* main.py: the pipeline.  `args' are the parsed flags, `pc' the position  *)
(* of main, `success' the set of steps whose <step>_success variable is    *)
(* True, `started' the calls of run_script in order (script, the           *)
(* original_dir of the call, and how the child ended), `cwd' the working   *)
(* directory of the process, `exit_code' what main returned and            *)
(* `data_files' which of the two data files exist.                         *)
(***************************************************************************)
Steps ==
    <<"download", "map", "heatmap", "improved_heatmap", "recent_data",
      "recent_map", "density", "growth", "correlation", "temporal">>

StepNames == {Steps[i] : i \in 1..Len(Steps)}

VizSteps == StepNames \ {"download"}

\* the script main passes to run_script for a step
Script(step) ==
    CASE step = "download" -> "download_berlin_wineries.py"
      [] step = "map" -> "create_real_map_visualization.py"
      [] step = "heatmap" -> "create_winery_heatmap.py"
      [] step = "improved_heatmap" -> "create_winery_heatmap_improved.py"
      [] step = "recent_data" -> "download_recent_wineries.py"
      [] step = "recent_map" -> "create_recent_wineries_map.py"
      [] step = "density" -> "create_winery_density_map.py"
      [] step = "growth" -> "create_winery_growth_analysis.py"
      [] step = "correlation" -> "create_winery_realestate_correlation.py"
      [] step = "temporal" -> "create_temporal_leading_indicator_analysis.py"

Flags == [download_only : BOOLEAN, viz_only : BOOLEAN, skip_download : BOOLEAN]

Files == [csv : BOOLEAN, json : BOOLEAN]

\* args.download_only and args.viz_only
ConflictingArgumentsAllThree(a) == a.download_only /\ a.viz_only /\ a.skip_download

ConflictingArguments(a) == a.download_only /\ a.viz_only

\* not args.viz_only and not args.skip_download
RunsDownload(a) == ~a.viz_only /\ ~a.skip_download

check_data_existsEither(files) == files.csv \/ files.json

\* csv_file.exists() and json_file.exists()
check_data_exists(files) == files.csv /\ files.json

\* how a call of run_script ends: the child's return code, or an exception of
\* subprocess.run
Outcomes == {"returned 0", "returned nonzero", "raised"}

\* the value run_script returns
Result(outcome) == outcome = "returned 0"

NextStepStopOnFailure(step, result) ==
    IF ~result THEN (IF step = "download" THEN "return 1" ELSE "summary")
    ELSE CASE step = "download" -> "check_data"
           [] step = "map" -> "heatmap"
           [] step = "heatmap" -> "improved_heatmap"
           [] step = "improved_heatmap" -> "recent_data"
           [] step = "recent_data" -> "recent_map"
           [] step = "recent_map" -> "density"
           [] step = "density" -> "growth"
           [] step = "growth" -> "correlation"
           [] step = "correlation" -> "temporal"
           [] step = "temporal" -> "summary"

\* where main goes when run_script has returned `result' for a step; after a
\* failed growth step correlation_success keeps its default True, so the test
\* before the temporal step passes
NextStep(step, result) ==
    CASE step = "download" -> IF result THEN "check_data" ELSE "return 1"
      [] step = "map" -> "heatmap"
      [] step = "heatmap" -> "improved_heatmap"
      [] step = "improved_heatmap" -> "recent_data"
      [] step = "recent_data" -> IF result THEN "recent_map" ELSE "density"
      [] step = "recent_map" -> "density"
      [] step = "density" -> "growth"
      [] step = "growth" -> IF result THEN "correlation" ELSE "temporal"
      [] step = "correlation" -> IF result THEN "temporal" ELSE "summary"
      [] step = "temporal" -> "summary"

\* the <step>_success variables main sets to True between the return of a
\* step and its next call of run_script
Defaults(step, result) ==
    CASE step = "recent_data" -> {"recent_map"}
      [] step = "growth" -> IF result THEN {"correlation"} ELSE {"correlation", "temporal"}
      [] step = "correlation" -> {"temporal"}
      [] OTHER -> {}

\* main from the return of run_script to its next call or return
Continue(step, result) ==
    /\ success' = (IF result THEN success \cup {step} ELSE success \ {step})
                      \cup Defaults(step, result)
    /\ IF NextStep(step, result) = "return 1"
       THEN pc' = "done" /\ exit_code' = "1"
       ELSE pc' = NextStep(step, result) /\ UNCHANGED exit_code

Running == Len(started) > 0 /\ started[Len(started)].outcome = "running"

\* main up to its first call of run_script or the data check
main ==
    /\ pc = "main"
    /\ IF ConflictingArguments(args)
       THEN pc' = "done" /\ exit_code' = "1" /\ UNCHANGED success
       ELSE /\ success' = {"download"}
            /\ pc' = IF RunsDownload(args) THEN "download" ELSE "check_data"
            /\ UNCHANGED exit_code
    /\ UNCHANGED <<args, started, cwd, data_files>>
    /\ UNCHANGED <<assignVars, current_df, synthVars, analysisVars>>

\* run_script up to the start of the child: os.getcwd() raises in a working
\* directory that was removed and the handler then reads original_dir
\* unbound; subprocess.run starts the child or raises
run_script(step) ==
    /\ pc = step
    /\ ~Running
    /\ IF cwd = "deleted"
       THEN /\ pc' = "done" /\ exit_code' = "UnboundLocalError"
            /\ UNCHANGED <<success, started, cwd>>
       ELSE \/ /\ started' = Append(started, [script |-> Script(step),
                                               original_dir |-> cwd,
                                               outcome |-> "running"])
               /\ cwd' = "scripts"
               /\ UNCHANGED <<pc, success, exit_code>>
            \/ /\ started' = Append(started, [script |-> Script(step),
                                               original_dir |-> cwd,
                                               outcome |-> "raised"])
               /\ cwd' = cwd
               /\ Continue(step, Result("raised"))
    /\ UNCHANGED <<args, data_files>>
    /\ UNCHANGED <<assignVars, current_df, synthVars, analysisVars>>

\* run_script from the end of the child to its return, and main up to its
\* next call; the download script may have written the data files
run_script_returns(step) ==
    /\ pc = step
    /\ Running
    /\ \E outcome \in {"returned 0", "returned nonzero"} :
           /\ started' = [started EXCEPT ![Len(started)].outcome = outcome]
           /\ cwd' = started[Len(started)].original_dir
           /\ Continue(step, Result(outcome))
    /\ IF step = "download"
       THEN \E files \in Files :
                /\ data_files.csv => files.csv
                /\ data_files.json => files.json
                /\ data_files' = files
       ELSE UNCHANGED data_files
    /\ UNCHANGED args
    /\ UNCHANGED <<assignVars, current_df, synthVars, analysisVars>>

\* main between the download and the first visualization
main_check_data ==
    /\ pc = "check_data"
    /\ IF args.download_only
       THEN pc' = "done" /\ exit_code' = "0"
       ELSE IF ~check_data_exists(data_files)
            THEN pc' = "done" /\ exit_code' = "1"
            ELSE pc' = "map" /\ UNCHANGED exit_code
    /\ UNCHANGED <<args, success, started, cwd, data_files>>
    /\ UNCHANGED <<assignVars, current_df, synthVars, analysisVars>>

\* map_success and ... and temporal_success
all_viz_success == VizSteps \subseteq success

\* main after the last step
main_summary ==
    /\ pc = "summary"
    /\ pc' = "done"
    /\ exit_code' = IF all_viz_success THEN "0" ELSE "1"
    /\ UNCHANGED <<args, success, started, cwd, data_files>>
    /\ UNCHANGED <<assignVars, current_df, synthVars, analysisVars>>

InitMain ==
    /\ args \in Flags
    /\ pc = "main" /\ success = {} /\ started = << >>
    /\ cwd \in {"project", "deleted"}
    /\ exit_code = "none"
    /\ data_files \in Files
    /\ historical_df = << >> /\ growth_metrics_df = NotCalled
    /\ winery_rates = << >> /\ re_rates = << >> /\ max_lag = 0
    /\ cross_corr = NotCalled /\ report = NotCalled
    /\ stream = << >> /\ rng = 0 /\ sim_runs = << >> /\ winery_runs = << >>
    /\ current_df = << >>
    /\ districts = DensityCatalog /\ df = << >> /\ district_stats_df = << >>
    /\ runs = 0 /\ wineries = << >> /\ done = {}

NextMain ==
    \/ main
    \/ \E step \in StepNames : run_script(step)
    \/ \E step \in StepNames : run_script_returns(step)
    \/ main_check_data
    \/ main_summary

SpecMain == InitMain /\ [][NextMain]_vars

\* the calls of run_script made for a step
CallsOf(step) == {i \in 1..Len(started) : started[i].script = Script(step)}

Started(step) == CallsOf(step) # {}

Succeeded(step) == \E i \in CallsOf(step) : started[i].outcome = "returned 0"

Failed(step) ==
    \E i \in CallsOf(step) : started[i].outcome \in {"returned nonzero", "raised"}

\* main has returned a value
Returned == pc = "done" /\ exit_code \in {"0", "1"}

C24_DownloadOnly ==
    /\ (args.download_only /\ args.viz_only) =>
           /\ started = << >>
           /\ pc = "done" => exit_code = "1"
    /\ (args.download_only /\ ~args.viz_only) =>
           /\ \A step \in VizSteps : ~Started(step)
           /\ (Returned /\ ~args.skip_download) =>
                  /\ Len(started) = 1
                  /\ Started("download")

C24_Witness ==
    \/ args.download_only /\ args.viz_only /\ pc = "done"
    \/ /\ args.download_only /\ ~args.viz_only /\ ~args.skip_download
       /\ Returned /\ exit_code = "0"

\* every step of the visualization phase has run and returned success
AllVizSucceeded == \A step \in VizSteps : Succeeded(step)

\* C25: in visualization mode main returns 0 if and only if every started
\* step returned success and no step was skipped because of a failed
\* predecessor, and it returns 1 if a started step failed; in every mode a
\* return value of 0 implies that every step the mode promises (the download
\* for --download-only) ran and succeeded.
C25_ExitCode ==
    /\ (Returned /\ ~args.download_only /\ Started("map")) =>
           /\ exit_code = "0" <=> AllVizSucceeded
           /\ (\E step \in StepNames : Failed(step)) => exit_code = "1"
    /\ (Returned /\ exit_code = "0") =>
           /\ args.download_only => Succeeded("download")
           /\ RunsDownload(args) => Succeeded("download")
           /\ ~args.download_only => AllVizSucceeded

\* C26: the recent-wineries map starts only if the recent-data download
\* succeeded, the correlation only if the growth analysis succeeded, and the
\* temporal analysis only if the correlation ran and succeeded, so never after
\* a failed growth analysis.
C26_Prerequisites ==
    /\ Started("recent_map") => Succeeded("recent_data")
    /\ Started("correlation") => Succeeded("growth")
    /\ Started("temporal") => Succeeded("correlation")
    /\ Started("temporal") => ~Failed("growth")

\* the place of a script in the order of the pipeline
Place(script) == CHOOSE i \in 1..Len(Steps) : Script(Steps[i]) = script

C28_WorkingDirectoryRestored ==
    /\ (Len(started) > 0 /\ ~Running) => cwd = started[Len(started)].original_dir
    /\ exit_code # "UnboundLocalError"

RECURSIVE SumCounts(_, _)
SumCounts(stats, n) ==
    IF n = 0 THEN 0 ELSE SumCounts(stats, n - 1) + stats[n].winery_count

\* the rows of the district statistics that count an entity
RowsCounting(row) ==
    {k \in 1..Len(district_stats_df) : district_stats_df[k].district = row.district}

\* C29: in the district statistics of the density analysis the winery counts
\* of all rows add up to the number of input entities, every entity is
\* counted in exactly one row, and the "Other" row is present exactly when
\* some entity is labeled "Other".
C29_CountConservation ==
    "density" \in done =>
        /\ SumCounts(district_stats_df, Len(district_stats_df)) = Len(df)
        /\ \A row \in Rows(df) : Cardinality(RowsCounting(row)) = 1
        /\ (\E r \in StatsRows : r.district = Other)
               <=> (\E row \in Rows(df) : row.district = Other)

C29_Witness ==
    /\ "density" \in done
    /\ Len(df) = MaxEntities
    /\ \E r \in StatsRows : r.district = Other /\ r.winery_count > 0
    /\ \E r \in StatsRows : r.district # Other /\ r.winery_count > 0

\* C30: the three scripts assign the same district name to every coordinate
\* pair: after the density analysis (with its own catalog), the growth
\* analysis and the recent-wineries download have labeled the same entities,
\* each entity carries the same label in all three tables.
C30_AssignersAgree ==
    (done = {"density", "growth", "recent"} /\ districts = DensityCatalog) =>
        /\ LabelsById(df) = LabelsById(current_df)
        /\ LabelsById(df) = LabelsById(wineries)

====
